---- MODULE Spec2Model ----
(***************************************************************************)
(* A model of the Cloudflare Pages deployment client                       *)
(* (src/lib/cloudflare.py) and of its command-line caller                  *)
(* (src/cloudflare_pages_deploy.py).                                        *)
(*                                                                         *)
(* The client is single-threaded.  One behaviour of the model is one call  *)
(* of an entry point: create_deployment, upload_files, wait_for_deployment *)
(* called directly by a library user, or main, which calls the three in    *)
(* turn.  The remote service is the environment: every response it can     *)
(* give is a nondeterministic choice.                                       *)
(***************************************************************************)
EXTENDS Integers, Sequences, FiniteSets, TLC

VARIABLES
    entry,              \* the entry point of this run
    pc,                 \* control position
    exc,                \* the exception that left the entry point (NoExc: none)
    exitCode,           \* main's return value (-1: main has not returned)
    \* ---- main's arguments
    argCreateNew,       \* --create-new
    argUnique,          \* --unique
    \* ---- the remote service and the calls made to it
    projectExists,      \* the named project exists on the remote side
    calls,              \* the API calls issued so far: <<[call, arg, resp]>>
    \* ---- create_deployment
    create_if_not_exists,
    production_branch,
    deployment,         \* the deployment descriptor: [known, hasId, hasUrl]
    \* ---- upload_files
    dirOK,              \* directory_path exists and is a directory
    nFiles,             \* number of regular files under the directory
    manifestAt,         \* index of the file whose relative path is manifest.json (0: none)
    i,                  \* the batch loop's index (range(0, len, batch_size))
    k,                  \* files of the current batch already opened
    files_dict,         \* the multipart payload being built: key -> part
    manifest,           \* keys of the manifest dict of the current batch
    openHandles,        \* file handles opened and not closed
    opened,             \* every file handle ever opened
    posts,              \* the POSTs issued to the upload target
    uploadRet,          \* upload_files returned True
    \* ---- wait_for_deployment
    timeout,
    interval,
    now,                \* time.time() - start_time
    stage,              \* the stage last observed (Unfetched: none yet)
    status,             \* the status descriptor last fetched
    fetches,            \* status fetches issued
    sleeps,             \* sleeps completed
    lastFetchDur,       \* duration of the last status fetch
    lastSleepDur,       \* duration of the last sleep
    waitRet             \* the status descriptor wait_for_deployment returned

vars == << entry, pc, exc, exitCode, argCreateNew, argUnique, projectExists,
           calls, create_if_not_exists, production_branch, deployment, dirOK, nFiles, manifestAt,
           i, k, files_dict, manifest, openHandles, opened, posts, uploadRet,
           timeout, interval, now, stage, status, fetches, sleeps,
           lastFetchDur, lastSleepDur, waitRet >>

mainVars   == << argCreateNew, argUnique >>
remoteVars == << projectExists, calls >>
createVars == << create_if_not_exists, production_branch, deployment >>
uploadVars == << dirOK, nFiles, manifestAt, i, k, files_dict, manifest,
                 openHandles, opened, posts, uploadRet >>
waitVars   == << timeout, interval, now, stage, status, fetches, sleeps,
                 lastFetchDur, lastSleepDur, waitRet >>

(***************************************************************************)
(* Bounds of the model.                                                    *)
(***************************************************************************)
MaxFiles     == 21      \* files in the directory (three batches)
MainMaxFiles == 1       \* files in the directory of a CLI run
MaxTimeout   == 3       \* largest timeout argument
MaxInterval  == 2       \* largest interval argument
MaxLatency   == 1       \* longest status fetch
MaxOvershoot == 1       \* longest oversleep of time.sleep
MaxPolls     == 5       \* status fetches of one run

(***************************************************************************)
(* Program constants.                                                      *)
(***************************************************************************)
BatchSize       == 10   \* batch_size
DefaultInterval == 5    \* wait_for_deployment(interval=5)
DefaultTimeout  == 300  \* --timeout, default=300

(***************************************************************************)
(* Exceptions.  msg is a tuple of strings: the parts of the message.       *)
(***************************************************************************)
NoExc == [type |-> "none", msg |-> << >>]

Exc(type, msg) == [type |-> type, msg |-> msg]

APIErrorType == "CloudflareAPIError"

(***************************************************************************)
(* Responses of the remote API.  "ok" is a body with success = true;       *)
(* "not_found", "auth" and "conflict" are bodies with success = false and  *)
(* that error message; "bad_json" is a body that is not JSON; "transport"  *)
(* is requests.request raising (no response at all).                       *)
(***************************************************************************)
FailedBodies == {"not_found", "auth", "conflict"}

\* _make_request: the exception it raises for a response (NoExc: it returns).
MakeRequest(resp) ==
    CASE resp = "transport"     -> Exc("RequestException", << "transport" >>)
      [] resp = "bad_json"      -> Exc(APIErrorType, << "Invalid JSON response" >>)
      [] resp \in FailedBodies  -> Exc(APIErrorType, << "API request failed", resp >>)
      [] OTHER                  -> NoExc

\* What the remote side can answer to a project lookup, a create and an open.
LookupResponses(exists) ==
    (IF exists THEN {"ok"} ELSE {"not_found"}) \cup {"auth", "bad_json", "transport"}

CreateResponses(exists) ==
    (IF exists THEN {"conflict"} ELSE {"ok"}) \cup {"auth", "bad_json", "transport"}

OpenResponses(exists) ==
    (IF exists THEN {"ok", "ok_no_id", "ok_no_url"} ELSE {"not_found"})
        \cup {"auth", "bad_json", "transport"}

NoDeployment == [known |-> FALSE, hasId |-> FALSE, hasUrl |-> FALSE]

\* result.get("result", {}) of an accepted open-deployment call.
Descriptor(resp) ==
    [known |-> TRUE, hasId |-> resp # "ok_no_id", hasUrl |-> resp # "ok_no_url"]

\* One API call: its name, the argument that matters ("" otherwise), the response.
Call(name, arg, resp) == [call |-> name, arg |-> arg, resp |-> resp]

NoStatus == [stage |-> "<none>", fetch |-> 0, hasError |-> FALSE]

(***************************************************************************)
(* Leaving a library operation.  Called directly, the operation's result   *)
(* is the run's result.  Called from main, an exception reaches one of     *)
(* main's two except clauses, both of which return 1, and a return goes on *)
(* with main's next step.                                                  *)
(***************************************************************************)
Raise(e) ==
    /\ exc' = e
    /\ pc' = "done"
    /\ exitCode' = IF entry = "main" THEN 1 ELSE exitCode

Return(mainNext) ==
    /\ exc' = exc
    /\ pc' = IF entry = "main" THEN mainNext ELSE "done"
    /\ exitCode' = exitCode

(***************************************************************************)
(* create_deployment                                                       *)
(***************************************************************************)
\* The lookup's exceptions that the except clause of create_deployment catches.
CaughtByCreateDeployment(e) == e.type = APIErrorType

ResolvesProjectAlways(flag) == TRUE

\* if create_if_not_exists:
ResolvesProject(flag) == flag

\* The branch on the flag: the lookup, or straight to the deployment call.
CreateDeploymentStart ==
    /\ pc = "cd_start"
    /\ pc' = IF ResolvesProject(create_if_not_exists) THEN "cd_lookup" ELSE "cd_open"
    /\ UNCHANGED << entry, exc, exitCode, mainVars, remoteVars, createVars,
                    uploadVars, waitVars >>

\* self.get_project(project_name) inside the try.
CreateDeploymentLookup ==
    /\ pc = "cd_lookup"
    /\ \E resp \in LookupResponses(projectExists) :
        LET e == MakeRequest(resp) IN
        /\ calls' = Append(calls, Call("get_project", "", resp))
        /\ IF e = NoExc
             THEN /\ pc' = "cd_open"
                  /\ UNCHANGED << exc, exitCode >>
             ELSE IF CaughtByCreateDeployment(e)
                    THEN /\ pc' = "cd_create"
                         /\ UNCHANGED << exc, exitCode >>
                    ELSE Raise(e)
    /\ UNCHANGED << entry, mainVars, projectExists, createVars, uploadVars, waitVars >>

\* self.create_project(project_name, production_branch) inside the except clause.
CreateDeploymentCreate ==
    /\ pc = "cd_create"
    /\ \E resp \in CreateResponses(projectExists) :
        LET e == MakeRequest(resp) IN
        /\ calls' = Append(calls, Call("create_project", production_branch, resp))
        /\ IF e = NoExc
             THEN /\ pc' = "cd_open"
                  /\ projectExists' = TRUE
                  /\ UNCHANGED << exc, exitCode >>
             ELSE /\ Raise(e)
                  /\ UNCHANGED projectExists
    /\ UNCHANGED << entry, mainVars, createVars, uploadVars, waitVars >>

\* The POST to .../projects/{project_name}/deployments and the return.
CreateDeploymentOpen ==
    /\ pc = "cd_open"
    /\ \E resp \in OpenResponses(projectExists) :
        LET e == MakeRequest(resp) IN
        /\ calls' = Append(calls, Call("create_deployment", "", resp))
        /\ IF e = NoExc
             THEN /\ deployment' = Descriptor(resp)
                  /\ Return("m_after_cd")
             ELSE /\ Raise(e)
                  /\ UNCHANGED deployment
    /\ UNCHANGED << entry, mainVars, projectExists, create_if_not_exists,
                    production_branch, uploadVars, waitVars >>

(***************************************************************************)
(* upload_files                                                            *)
(*                                                                         *)
(* The files of the directory are numbered 1..nFiles in the order glob     *)
(* yields them.  A file's relative path is its number, except the file     *)
(* numbered manifestAt, whose relative path is "manifest.json"             *)
(* (ManifestKey).  A file's handle is named by the file's number.          *)
(***************************************************************************)
ManifestKey == 0

Min(a, b) == IF a < b THEN a ELSE b

\* file_info["path"] of file f.
RelPath(f) == IF f = manifestAt THEN ManifestKey ELSE f

\* batch = files_to_upload[i:i+batch_size], as the numbers of its files.
BatchEnd(start) == Min(start + BatchSize, nFiles)

Batch(start) == (start + 1) .. BatchEnd(start)

NextBatchStartSkips(start) == start + BatchSize + 1

\* The step of range(0, len(files_to_upload), batch_size).
NextBatchStart(start) == start + BatchSize

\* (rel_path, open(file_path, "rb"), content_type)
FilePart(f) == [name |-> RelPath(f), kind |-> "file", handle |-> f]

\* ("manifest.json", manifest_json, "application/json")
ManifestPart == [name |-> ManifestKey, kind |-> "manifest", handle |-> 0]

\* The parts of a payload whose second element has a close method.
Closable(payload) ==
    { payload[key].handle : key \in { x \in DOMAIN payload : payload[x].kind = "file" } }

\* files_dict[key] = part
DictSet(dict, key, part) == (key :> part) @@ dict

EmptyDict == [x \in {} |-> ManifestPart]

\* The responses of the upload target: the status code, or requests.post raising.
UploadResponses == {"200", "201", "500", "transport"}

\* The exception the try block raises for a response of the upload target.
PostFailure(resp) ==
    CASE resp = "200"       -> NoExc
      [] resp = "transport" -> Exc("RequestException", << "transport" >>)
      [] OTHER              -> Exc(APIErrorType, << "Upload failed", resp >>)

DirectoryRejectedNever(ok) == FALSE

\* if not directory.exists() or not directory.is_dir()
DirectoryRejected(ok) == ~ok

ReraisedSwallowed(e) == NoExc

\* except Exception as e: ... raise e
Reraised(e) == e

\* The guard on upload_url, then _prepare_files' guard on the directory.
UploadStart ==
    /\ pc = "uf_start"
    /\ IF ~deployment.hasUrl
         THEN Raise(Exc(APIErrorType, << "No upload URL provided in deployment" >>))
         ELSE IF DirectoryRejected(dirOK)
                THEN Raise(Exc("ValueError", << "Directory not found" >>))
                ELSE /\ pc' = "uf_loop"
                     /\ UNCHANGED << exc, exitCode >>
    /\ UNCHANGED << entry, mainVars, remoteVars, createVars, uploadVars, waitVars >>

\* The head of the batch loop: the next batch, or return True.
UploadLoop ==
    /\ pc = "uf_loop"
    /\ IF i < nFiles
         THEN /\ files_dict' = EmptyDict
              /\ manifest' = {}
              /\ k' = 0
              /\ pc' = "uf_open"
              /\ UNCHANGED << exc, exitCode, uploadRet >>
         ELSE /\ uploadRet' = TRUE
              /\ Return("m_after_uf")
              /\ UNCHANGED << files_dict, manifest, k >>
    /\ UNCHANGED << entry, mainVars, remoteVars, createVars, waitVars, dirOK,
                    nFiles, manifestAt, i, openHandles, opened, posts >>

\* One turn of "for file_path, file_info in batch": open succeeds.
UploadOpenFile ==
    /\ pc = "uf_open"
    /\ i + k < BatchEnd(i)
    /\ LET f == i + k + 1 IN
        /\ files_dict' = DictSet(files_dict, RelPath(f), FilePart(f))
        /\ manifest' = manifest \cup {RelPath(f)}
        /\ openHandles' = openHandles \cup {f}
        /\ opened' = opened \cup {f}
    /\ k' = k + 1
    /\ UNCHANGED << entry, pc, exc, exitCode, mainVars, remoteVars, createVars,
                    waitVars, dirOK, nFiles, manifestAt, i, posts, uploadRet >>

\* One turn of the same loop: open raises OSError.  The loop is outside the
\* try block, so the exception leaves upload_files as it is.
UploadOpenFails ==
    /\ pc = "uf_open"
    /\ i + k < BatchEnd(i)
    /\ Raise(Exc("OSError", << "open" >>))
    /\ UNCHANGED << entry, mainVars, remoteVars, createVars, uploadVars, waitVars >>

\* files_dict["manifest.json"] = (...).  A file part stored under that key is
\* replaced; its handle is no longer reachable from files_dict, and whether the
\* runtime finalizes it is up to the runtime.
UploadAddManifest ==
    /\ pc = "uf_open"
    /\ i + k = BatchEnd(i)
    /\ files_dict' = DictSet(files_dict, ManifestKey, ManifestPart)
    /\ \E collected \in BOOLEAN :
        openHandles' = IF collected THEN openHandles \cap Closable(files_dict')
                                    ELSE openHandles
    /\ pc' = "uf_post"
    /\ UNCHANGED << entry, exc, exitCode, mainVars, remoteVars, createVars,
                    waitVars, dirOK, nFiles, manifestAt, i, k, manifest, opened,
                    posts, uploadRet >>

\* The try block and its except clause: the POST, then the handles of
\* files_dict are closed on either path; a failure is raised again.
UploadPost ==
    /\ pc = "uf_post"
    /\ \E resp \in UploadResponses :
        LET e == Reraised(PostFailure(resp)) IN
        /\ posts' = Append(posts, [start |-> i, payload |-> files_dict,
                                   manifest |-> manifest, resp |-> resp])
        /\ openHandles' = openHandles \ Closable(files_dict)
        /\ IF e = NoExc
             THEN /\ i' = NextBatchStart(i)
                  /\ pc' = "uf_loop"
                  /\ UNCHANGED << exc, exitCode >>
             ELSE /\ Raise(e)
                  /\ UNCHANGED i
    /\ UNCHANGED << entry, mainVars, remoteVars, createVars, waitVars, dirOK,
                    nFiles, manifestAt, k, files_dict, manifest, opened, uploadRet >>

(***************************************************************************)
(* wait_for_deployment                                                     *)
(*                                                                         *)
(* now is the time elapsed since start_time, read by the loop condition.   *)
(* A status fetch takes 0..MaxLatency; time.sleep(interval) takes at least *)
(* interval.                                                               *)
(***************************************************************************)
Unfetched == "<unfetched>"

\* A missing stage reads as "" (status.get("stage", "")).
PendingStages == {"queued", "building", ""}

FailureStages == {"failed", "canceled"}

TerminalStages == {"success"} \cup FailureStages

LoopContinuesInclusive(elapsed, limit) == elapsed <= limit

\* while time.time() - start_time < timeout
LoopContinues(elapsed, limit) == elapsed < limit

\* status.get('error_message', 'Unknown error')
ErrorMessage(st) == IF st.hasError THEN "remote error message" ELSE "Unknown error"

StageStepCanceledPolls(s) ==
    CASE s = "success" -> "return"
      [] s = "failed"  -> "raise"
      [] OTHER         -> "sleep"

\* if stage == "success": ... elif stage in ["failed", "canceled"]: ... (else sleep)
StageStep(s) ==
    CASE s = "success"        -> "return"
      [] s \in FailureStages  -> "raise"
      [] OTHER                -> "sleep"

\* The loop condition; the raise after the loop when it is false.
WaitCheck ==
    /\ pc = "w_check"
    /\ IF LoopContinues(now, timeout)
         THEN /\ pc' = "w_fetch"
              /\ UNCHANGED << exc, exitCode >>
         ELSE Raise(Exc(APIErrorType, << "Deployment timed out" >>))
    /\ UNCHANGED << entry, mainVars, remoteVars, createVars, uploadVars, waitVars >>

\* get_deployment_status raises: the exception leaves wait_for_deployment.
WaitFetchFails ==
    /\ pc = "w_fetch"
    /\ fetches < MaxPolls
    /\ \E d \in 0 .. MaxLatency, resp \in {"not_found", "auth", "bad_json", "transport"} :
        /\ now' = now + d
        /\ lastFetchDur' = d
        /\ calls' = Append(calls, Call("get_deployment_status", "", resp))
        /\ Raise(MakeRequest(resp))
    /\ fetches' = fetches + 1
    /\ UNCHANGED << entry, mainVars, projectExists, createVars, uploadVars,
                    timeout, interval, stage, status, sleeps, lastSleepDur, waitRet >>

\* get_deployment_status returns a descriptor; its stage decides the next step.
WaitFetch ==
    /\ pc = "w_fetch"
    /\ fetches < MaxPolls
    /\ \E d \in 0 .. MaxLatency, s \in PendingStages \cup TerminalStages, he \in BOOLEAN :
        LET st == [stage |-> s, fetch |-> fetches + 1, hasError |-> he] IN
        /\ s \notin FailureStages => ~he
        /\ now' = now + d
        /\ lastFetchDur' = d
        /\ calls' = Append(calls, Call("get_deployment_status", "", "ok"))
        /\ stage' = s
        /\ status' = st
        /\ IF StageStep(s) = "return"
             THEN /\ waitRet' = st
                  /\ Return("m_after_w")
             ELSE IF StageStep(s) = "raise"
                    THEN /\ Raise(Exc(APIErrorType, << "Deployment", s, ErrorMessage(st) >>))
                         /\ UNCHANGED waitRet
                    ELSE /\ pc' = "w_sleep"
                         /\ UNCHANGED << exc, exitCode, waitRet >>
    /\ fetches' = fetches + 1
    /\ UNCHANGED << entry, mainVars, projectExists, createVars, uploadVars,
                    timeout, interval, sleeps, lastSleepDur >>

\* time.sleep(interval); a negative interval raises ValueError.
WaitSleep ==
    /\ pc = "w_sleep"
    /\ IF interval < 0
         THEN /\ Raise(Exc("ValueError", << "sleep length must be non-negative" >>))
              /\ UNCHANGED << now, sleeps, lastSleepDur >>
         ELSE \E over \in 0 .. MaxOvershoot :
                /\ now' = now + interval + over
                /\ lastSleepDur' = interval + over
                /\ sleeps' = sleeps + 1
                /\ pc' = "w_check"
                /\ UNCHANGED << exc, exitCode >>
    /\ UNCHANGED << entry, mainVars, remoteVars, createVars, uploadVars,
                    timeout, interval, stage, status, fetches, lastFetchDur, waitRet >>

(***************************************************************************)
(* main                                                                    *)
(***************************************************************************)
\* The branch on the two create flags.
MainStart ==
    /\ pc = "m_start"
    /\ IF ~argCreateNew /\ ~argUnique
         THEN /\ pc' = "m_lookup"
              /\ UNCHANGED create_if_not_exists
         ELSE /\ pc' = "cd_start"
              /\ create_if_not_exists' = TRUE
    /\ UNCHANGED << entry, exc, exitCode, mainVars, remoteVars, deployment,
                    production_branch, uploadVars, waitVars >>

\* deployer.get_project(project_name) in main's inner try, and the print of
\* project['name'], which raises KeyError for a descriptor without a name.
MainLookup ==
    /\ pc = "m_lookup"
    /\ \E resp \in LookupResponses(projectExists), named \in BOOLEAN :
        LET e == IF MakeRequest(resp) = NoExc /\ ~named
                   THEN Exc("KeyError", << "name" >>)
                   ELSE MakeRequest(resp) IN
        /\ named \/ resp = "ok"
        /\ calls' = Append(calls, Call("get_project", "", resp))
        /\ IF e = NoExc
             THEN /\ pc' = "cd_start"
                  /\ create_if_not_exists' = FALSE
                  /\ UNCHANGED << exc, exitCode >>
             ELSE IF e.type = APIErrorType
                    THEN /\ pc' = "m_list"
                         /\ UNCHANGED << exc, exitCode, create_if_not_exists >>
                    ELSE /\ Raise(e)
                         /\ UNCHANGED create_if_not_exists
    /\ UNCHANGED << entry, mainVars, projectExists, deployment, production_branch,
                    uploadVars, waitVars >>

\* deployer.list_projects() in the inner except clause, then return 1.
MainList ==
    /\ pc = "m_list"
    /\ \E resp \in {"ok", "auth", "bad_json", "transport"} :
        /\ calls' = Append(calls, Call("list_projects", "", resp))
        /\ exc' = MakeRequest(resp)
    /\ exitCode' = 1
    /\ pc' = "done"
    /\ UNCHANGED << entry, mainVars, projectExists, createVars, uploadVars, waitVars >>

HasDeploymentIdUnchecked(d) == TRUE

\* deployment_id = deployment.get("id"); if not deployment_id: return 1
HasDeploymentId(d) == d.hasId

\* The check of the deployment identifier; return 1 without one.
MainAfterCreate ==
    /\ pc = "m_after_cd"
    /\ IF HasDeploymentId(deployment)
         THEN /\ pc' = "uf_start"
              /\ UNCHANGED exitCode
         ELSE /\ pc' = "done"
              /\ exitCode' = 1
    /\ UNCHANGED << entry, exc, mainVars, remoteVars, createVars, uploadVars, waitVars >>

\* upload_files returned: wait_for_deployment starts its clock.
MainAfterUpload ==
    /\ pc = "m_after_uf"
    /\ pc' = "w_check"
    /\ UNCHANGED << entry, exc, exitCode, mainVars, remoteVars, createVars,
                    uploadVars, waitVars >>

\* wait_for_deployment returned: return 0.
MainAfterWait ==
    /\ pc = "m_after_w"
    /\ pc' = "done"
    /\ exitCode' = 0
    /\ UNCHANGED << entry, exc, mainVars, remoteVars, createVars, uploadVars, waitVars >>

(***************************************************************************)
(* Initial states and specifications, one per entry point.                 *)
(***************************************************************************)
Timeouts == -1 .. MaxTimeout

Intervals == -1 .. MaxInterval

\* production_branch: the default, or one the caller names.
DefaultBranch == "main"

Branches == {DefaultBranch, "develop"}

Descriptors == { [known |-> TRUE, hasId |-> a, hasUrl |-> b] : a, b \in BOOLEAN }

InitRun ==
    /\ exc = NoExc
    /\ exitCode = -1
    /\ calls = << >>

InitNoMain ==
    /\ argCreateNew = FALSE
    /\ argUnique = FALSE

InitNoUpload ==
    /\ dirOK = TRUE
    /\ nFiles = 0
    /\ manifestAt = 0

InitUploadState ==
    /\ i = 0
    /\ k = 0
    /\ files_dict = EmptyDict
    /\ manifest = {}
    /\ openHandles = {}
    /\ opened = {}
    /\ posts = << >>
    /\ uploadRet = FALSE

InitWaitState ==
    /\ now = 0
    /\ stage = Unfetched
    /\ status = NoStatus
    /\ fetches = 0
    /\ sleeps = 0
    /\ lastFetchDur = 0
    /\ lastSleepDur = 0
    /\ waitRet = NoStatus

InitNoWait ==
    /\ timeout = 0
    /\ interval = 0

\* A directory: missing, or holding up to max files, one of which may be manifest.json.
Directory(max) ==
    /\ dirOK \in BOOLEAN
    /\ nFiles \in 0 .. max
    /\ ~dirOK => nFiles = 0
    /\ manifestAt \in 0 .. nFiles

InitCreate ==
    /\ entry = "create_deployment"
    /\ pc = "cd_start"
    /\ InitRun /\ InitNoMain /\ InitNoUpload /\ InitUploadState
    /\ InitNoWait /\ InitWaitState
    /\ projectExists \in BOOLEAN
    /\ create_if_not_exists \in BOOLEAN
    /\ production_branch \in Branches
    /\ deployment = NoDeployment

NextCreate ==
    \/ CreateDeploymentStart
    \/ CreateDeploymentLookup
    \/ CreateDeploymentCreate
    \/ CreateDeploymentOpen

SpecCreate == InitCreate /\ [][NextCreate]_vars

InitUpload ==
    /\ entry = "upload_files"
    /\ pc = "uf_start"
    /\ InitRun /\ InitNoMain /\ InitUploadState /\ InitNoWait /\ InitWaitState
    /\ projectExists = TRUE
    /\ create_if_not_exists = FALSE
    /\ production_branch = DefaultBranch
    /\ deployment \in Descriptors
    /\ Directory(MaxFiles)

NextUpload ==
    \/ UploadStart
    \/ UploadLoop
    \/ UploadOpenFile
    \/ UploadOpenFails
    \/ UploadAddManifest
    \/ UploadPost

SpecUpload == InitUpload /\ [][NextUpload]_vars

InitWait ==
    /\ entry = "wait_for_deployment"
    /\ pc = "w_check"
    /\ InitRun /\ InitNoMain /\ InitNoUpload /\ InitUploadState /\ InitWaitState
    /\ projectExists = TRUE
    /\ create_if_not_exists = FALSE
    /\ production_branch = DefaultBranch
    /\ deployment = NoDeployment
    /\ timeout \in Timeouts
    /\ interval \in Intervals

NextWait ==
    \/ WaitCheck
    \/ WaitFetchFails
    \/ WaitFetch
    \/ WaitSleep

SpecWait == InitWait /\ [][NextWait]_vars

InitMain ==
    /\ entry = "main"
    /\ pc = "m_start"
    /\ InitRun /\ InitUploadState /\ InitWaitState
    /\ argCreateNew \in BOOLEAN
    /\ argUnique \in BOOLEAN
    /\ projectExists \in BOOLEAN
    /\ create_if_not_exists = FALSE
    /\ production_branch = DefaultBranch
    /\ deployment = NoDeployment
    /\ Directory(MainMaxFiles)
    /\ timeout \in Timeouts \cup {DefaultTimeout}
    /\ interval = DefaultInterval

NextMain ==
    \/ MainStart
    \/ MainLookup
    \/ MainList
    \/ MainAfterCreate
    \/ MainAfterUpload
    \/ MainAfterWait
    \/ NextCreate
    \/ NextUpload
    \/ NextWait

SpecMain == InitMain /\ [][NextMain]_vars

(***************************************************************************)
(* Properties.                                                             *)
(***************************************************************************)
Last(seq) == seq[Len(seq)]

CeilDiv(n, b) == (n + b - 1) \div b

TimeoutExc == Exc(APIErrorType, << "Deployment timed out" >>)

WaitEnded == entry = "wait_for_deployment" /\ pc = "done"

UploadEnded == entry = "upload_files" /\ pc = "done"

CreateEnded == entry = "create_deployment" /\ pc = "done"

\* The parts of a payload, by kind.
FileParts(payload) == { x \in DOMAIN payload : payload[x].kind = "file" }

ManifestParts(payload) == { x \in DOMAIN payload : payload[x].kind = "manifest" }

\* The exceptions a failed status fetch raises.
FetchErrors == { MakeRequest(r) : r \in {"not_found", "auth", "bad_json", "transport"} }

\* The last status fetch failed.
LastFetchFailed == calls # << >> /\ Last(calls).resp # "ok"

---------------------------------------------------------------------------
\* C1 as stated: wait_for_deployment ends in one of three ways only (success
\* return, API error after 'failed'/'canceled', timeout error), and the
\* timeout error is raised at an elapsed time t with T <= t <= T + I.  Stated
\* here for the arguments a caller is expected to pass, T > 0 and I >= 0.
C1_ThreeWaysWithinOneInterval ==
    (WaitEnded /\ timeout > 0 /\ interval >= 0) =>
        \/ exc = NoExc /\ stage = "success"
        \/ exc.type = APIErrorType /\ exc # TimeoutExc /\ stage \in FailureStages
        \/ exc = TimeoutExc /\ timeout <= now /\ now <= timeout + interval

\* C1 amended: wait_for_deployment ends in one of five ways: it returns the
\* status after observing 'success'; it raises the API error of a 'failed' or
\* 'canceled' stage; an exception of a failed status fetch leaves it; a
\* negative interval makes the sleep raise ValueError; or it raises the timeout
\* error, at the first loop check with elapsed time t >= T, where t = 0 if no
\* status was fetched and otherwise t < T + (duration of the last fetch) +
\* (duration of the last sleep).
C1_EndsAndTimeoutBound ==
    WaitEnded =>
        \/ /\ exc = NoExc
           /\ stage = "success"
           /\ waitRet = status
        \/ /\ stage \in FailureStages
           /\ exc = Exc(APIErrorType, << "Deployment", stage, ErrorMessage(status) >>)
        \/ /\ exc \in FetchErrors
           /\ LastFetchFailed
           /\ stage \notin TerminalStages
        \/ /\ exc.type = "ValueError"
           /\ interval < 0
           /\ stage \in PendingStages
        \/ /\ exc = TimeoutExc
           /\ stage \notin TerminalStages
           /\ now >= timeout
           /\ fetches = 0 => now = 0
           /\ fetches > 0 => now < timeout + lastFetchDur + lastSleepDur

\* A timeout raised later than T + I, after at least one poll.
C1_Witness ==
    /\ WaitEnded
    /\ exc = TimeoutExc
    /\ fetches > 0
    /\ interval >= 0
    /\ now > timeout + interval

---------------------------------------------------------------------------
\* C2: when upload_files returns or raises, and whenever a batch has ended,
\* no file handle it opened is still open.
C2_HandlesClosed ==
    (UploadEnded \/ (entry = "upload_files" /\ pc = "uf_loop")) => openHandles = {}

---------------------------------------------------------------------------
\* C3: with create_if_not_exists set, a create-project call is issued only
\* right after a project lookup that failed with NotFound.
C3_CreateOnlyOnNotFound ==
    \A n \in 1 .. Len(calls) :
        calls[n].call = "create_project" =>
            /\ n > 1
            /\ calls[n - 1].call = "get_project"
            /\ calls[n - 1].resp = "not_found"

---------------------------------------------------------------------------
\* C4: with the flag set and a lookup that returned NotFound, a create-project
\* call comes before the open-deployment call, which is issued only if the
\* create succeeded; with the flag clear, no create-project call is issued and
\* the NotFound error of the remote service leaves create_deployment unchanged.
C4_CreateBeforeOpen ==
    /\ (create_if_not_exists /\ calls # << >> /\ calls[1].resp = "not_found") =>
        /\ calls[1].call = "get_project"
        /\ Len(calls) = 1 => pc = "cd_create"
        /\ Len(calls) >= 2 =>
            /\ calls[2] = Call("create_project", production_branch, calls[2].resp)
            /\ calls[2].resp # "ok" => Len(calls) = 2 /\ pc = "done" /\ exc # NoExc
        /\ \A m \in 1 .. Len(calls) :
            calls[m].call = "create_deployment" => m = 3 /\ calls[2].resp = "ok"
    /\ ~create_if_not_exists =>
        /\ \A n \in 1 .. Len(calls) : calls[n].call = "create_deployment"
        /\ Len(calls) <= 1
        /\ (CreateEnded /\ ~projectExists) =>
            \/ exc = Exc(APIErrorType, << "API request failed", "not_found" >>)
            \/ Last(calls).resp # "not_found"

\* The project was missing, was created, and the deployment was then opened.
C4_Witness ==
    /\ CreateEnded
    /\ create_if_not_exists
    /\ Len(calls) = 3
    /\ calls[1] = Call("get_project", "", "not_found")
    /\ calls[2].call = "create_project"
    /\ calls[3] = Call("create_deployment", "", "ok")

---------------------------------------------------------------------------
\* C5: a failed POST (non-200 or a transport exception) makes upload_files
\* raise at once, so no batch is posted after it; batches are posted one after
\* another in list order, each only after the one before was accepted; True is
\* returned only when every batch was accepted.
C5_AbortOnFailedBatch ==
    /\ \A n \in 1 .. Len(posts) :
        /\ posts[n].start = (n - 1) * BatchSize
        /\ n < Len(posts) => posts[n].resp = "200"
    /\ (posts # << >> /\ Last(posts).resp # "200") =>
        /\ pc = "done"
        /\ exc = PostFailure(Last(posts).resp)
        /\ exc # NoExc
        /\ ~uploadRet
    /\ uploadRet =>
        /\ \A n \in 1 .. Len(posts) : posts[n].resp = "200"
        /\ Len(posts) * BatchSize >= nFiles

\* The second batch or a later one was refused.
C5_Witness ==
    /\ UploadEnded
    /\ Len(posts) >= 2
    /\ Last(posts).resp # "200"

---------------------------------------------------------------------------
\* C6: a fully successful upload of N files issues exactly ceil(N / B) POSTs
\* (none for N = 0), and every POST carries at most B file parts and exactly
\* one manifest part.
C6_BatchCount ==
    /\ uploadRet => Len(posts) = CeilDiv(nFiles, BatchSize)
    /\ (uploadRet /\ nFiles = 0) => posts = << >>
    /\ \A n \in 1 .. Len(posts) :
        /\ Cardinality(FileParts(posts[n].payload)) <= BatchSize
        /\ Cardinality(ManifestParts(posts[n].payload)) = 1

\* Two full batches and a partial one were all accepted.
C6_Witness ==
    /\ UploadEnded
    /\ uploadRet
    /\ nFiles > 2 * BatchSize
    /\ Len(posts) = 3

---------------------------------------------------------------------------
\* C7: every posted payload holds, for each file of its batch, a file part
\* keyed by the file's relative path and carrying that file's bytes, plus one
\* additional manifest part, and the manifest's keys are the batch's paths.
C7_EveryFileIsAPart ==
    \A n \in 1 .. Len(posts) :
        LET p == posts[n] IN
        /\ \A f \in Batch(p.start) :
            /\ RelPath(f) \in DOMAIN p.payload
            /\ p.payload[RelPath(f)] = FilePart(f)
        /\ Cardinality(DOMAIN p.payload) = Cardinality(Batch(p.start)) + 1
        /\ p.manifest = { RelPath(f) : f \in Batch(p.start) }

---------------------------------------------------------------------------
\* C8 as stated: a stage that is not terminal causes one sleep followed by
\* another poll, so a run never ends right after that sleep.
C8_SleepThenAnotherPoll ==
    (entry = "wait_for_deployment" /\ stage \in PendingStages /\ sleeps = fetches)
        => pc # "done"

\* C8 amended: 'success' returns the status just fetched; 'failed' and
\* 'canceled' raise an API error with the remote error message; any other
\* stage causes one sleep of the interval (ValueError if the interval is
\* negative) followed by the loop's timeout check, and another poll only if
\* the elapsed time is still below the timeout, else the timeout error; after
\* a terminal stage no status fetch is issued.
C8_StageDecides ==
    /\ stage \in TerminalStages =>
        /\ pc = "done"
        /\ status = [stage |-> stage, fetch |-> fetches, hasError |-> status.hasError]
    /\ stage = "success" => exc = NoExc /\ waitRet = status
    /\ stage \in FailureStages =>
        /\ waitRet = NoStatus
        /\ exc = Exc(APIErrorType,
                     << "Deployment", stage,
                        IF status.hasError THEN "remote error message" ELSE "Unknown error" >>)
    /\ stage \in PendingStages =>
        \/ pc = "w_sleep" /\ sleeps = fetches - 1
        \/ pc = "w_check" /\ sleeps = fetches /\ lastSleepDur >= interval
        \/ pc = "w_fetch" /\ sleeps = fetches /\ now < timeout
        \/ pc = "done" /\ sleeps = fetches /\ exc = TimeoutExc /\ now >= timeout
        \/ pc = "done" /\ sleeps = fetches - 1 /\ exc.type = "ValueError" /\ interval < 0
        \/ pc = "done" /\ sleeps = fetches - 1 /\ exc \in FetchErrors /\ LastFetchFailed

\* A pending stage, a sleep, another poll, and then the timeout.
C8_Witness ==
    /\ WaitEnded
    /\ exc = TimeoutExc
    /\ stage \in PendingStages
    /\ fetches >= 2
    /\ sleeps = fetches

---------------------------------------------------------------------------
\* C9 as stated: with a directory that is missing or no directory,
\* upload_files fails with a validation error for every deployment descriptor,
\* before any file is opened and before any POST.
C9_ValidationErrorForEveryDescriptor ==
    (entry = "upload_files" /\ ~dirOK) =>
        /\ pc \in {"uf_start", "done"}
        /\ pc = "done" => exc.type = "ValueError"
        /\ opened = {}
        /\ posts = << >>

\* C9 amended: with such a directory, upload_files fails before any file is
\* opened and before any POST: with a validation error if the descriptor
\* carries an upload URL, and with the API error "No upload URL provided in
\* deployment" if it carries none (that check comes first).
C9_FailsUpFront ==
    (entry = "upload_files" /\ ~dirOK) =>
        /\ pc \in {"uf_start", "done"}
        /\ (pc = "done" /\ deployment.hasUrl) =>
            exc = Exc("ValueError", << "Directory not found" >>)
        /\ (pc = "done" /\ ~deployment.hasUrl) =>
            exc = Exc(APIErrorType, << "No upload URL provided in deployment" >>)
        /\ opened = {}
        /\ posts = << >>

\* The validation error was raised.
C9_Witness ==
    /\ UploadEnded
    /\ ~dirOK
    /\ deployment.hasUrl
    /\ exc.type = "ValueError"

---------------------------------------------------------------------------
\* C10: in one run of main the steps come in the order resolve-or-create
\* project, open deployment, upload files, poll status, each only after the
\* one before succeeded; the exit code is 0 exactly when the poll returned
\* 'success' and 1 on every failure.
C10_MainOrder ==
    entry = "main" =>
        \* open deployment only after the project was found or created
        /\ \A m \in 1 .. Len(calls) :
            calls[m].call = "create_deployment" =>
                \E n \in 1 .. (m - 1) :
                    /\ calls[n].call \in {"get_project", "create_project"}
                    /\ calls[n].resp = "ok"
        \* not found and neither create flag: nothing is created or opened
        /\ (~argCreateNew /\ ~argUnique /\ calls # << >> /\ calls[1].resp = "not_found") =>
            \A m \in 1 .. Len(calls) :
                calls[m].call \notin {"create_project", "create_deployment"}
        \* upload only with an opened deployment that has an identifier
        /\ (pc \in {"uf_start", "uf_loop", "uf_open", "uf_post"} \/ opened # {} \/ posts # << >>
                \/ uploadRet) =>
            /\ deployment.known /\ deployment.hasId
            /\ \E m \in 1 .. Len(calls) :
                calls[m].call = "create_deployment" /\ MakeRequest(calls[m].resp) = NoExc
        \* poll only after the upload returned
        /\ (pc \in {"w_check", "w_fetch", "w_sleep"} \/ fetches > 0) => uploadRet
        \* the exit code
        /\ pc = "done" <=> exitCode \in {0, 1}
        /\ exitCode = 0 <=> (pc = "done" /\ waitRet.stage = "success")
        /\ exitCode = 0 => exc = NoExc /\ stage = "success" /\ fetches > 0

\* A run that uploaded a batch, polled twice and exited with 0.
C10_Witness ==
    /\ entry = "main"
    /\ exitCode = 0
    /\ posts # << >>
    /\ fetches >= 2

====
